---- MODULE Spec2Model ----
(***************************************************************************)
(* Model of artifactory/commands/container/push.go: PushCommand.Run and    *)
(* PushCommand.layersMapToFileTransferDetails.                             *)
(*                                                                         *)
(* Run is a straight-line sequence of collaborator calls.  Each call is    *)
(* one action; its outcome (success, error, nil module, resolved layers)   *)
(* is chosen nondeterministically, and the control flow that follows the   *)
(* call in the source is part of the same action.  `calls` is a history    *)
(* variable recording every collaborator call with its outcome.            *)
(*                                                                         *)
(* Go strings that are only compared or copied are TLA+ strings.  The      *)
(* strings path.Join works on (Repo, Path, Name, TargetPath) are sequences *)
(* of one-character strings.  A Go pointer is a sequence of length 0 (nil) *)
(* or 1 (the value pointed to).                                            *)
(***************************************************************************)
EXTENDS Naturals, Sequences, FiniteSets

\* ------------------------------------------------------------------ bounds

\* Longest sequence of layers a resolver holds.
MaxLayers == 2
\* Longest property list of one layer.
MaxProps == 2

\* ------------------------------------------------------------ input domains

Nil == <<>>

DockerClient == "docker"
Podman == "podman"
ContainerManagerTypes == {DockerClient, Podman}

\* serverDetails.ArtifactoryUrl
ArtifactoryUrl == "https://x"
\* pc.BuildConfiguration().GetModule()
ModuleName == "m"

SeqsUpTo(S, n) == UNION {[1..k -> S] : k \in 0..n}

\* servicesutils.ResultItem.Properties entries
Property(k, v) == [Key |-> k, Value |-> v]
PropertySet == {Property("sha256", "abc"), Property("sha256", "def"), Property("docker.manifest", "abc")}
PropertyLists == SeqsUpTo(PropertySet, MaxProps)

Repos == {<<"r">>}
Paths == {<<"p">>, <<"a", "/", "b">>, <<".">>, <<>>}
Names == {<<"n">>}

\* servicesutils.ResultItem, the fields the command reads: every property list
\* at one location, and every location with one property list.
ResultItem(repo, path, name, properties) ==
    [Repo |-> repo, Path |-> path, Name |-> name, Properties |-> properties]
ResultItems ==
    {ResultItem(<<"r">>, <<"p">>, <<"n">>, ps) : ps \in PropertyLists}
    \cup {ResultItem(r, p, n, <<Property("sha256", "abc")>>) : r \in Repos, p \in Paths, n \in Names}
LayerSeqs == SeqsUpTo(ResultItems, MaxLayers)

\* The layers a resolver can hold after Build in the workflow specification.
Layer1 == ResultItem(<<"r">>, <<"p">>, <<"n">>, <<Property("sha256", "abc")>>)
Layer2 == ResultItem(<<"r">>, <<".">>, <<"n">>, <<>>)
ResolvedLayerSeqs == SeqsUpTo({Layer1, Layer2}, MaxLayers)

\* A result a caller may have stored with SetResult before Run.
PriorResult == [reader |-> <<>>, successCount |-> 1]

\* --------------------------------------------------------------- path.Join

RECURSIVE SplitSlash(_, _, _)
SplitSlash(s, i, cur) ==
    IF i > Len(s) THEN <<cur>>
    ELSE IF s[i] = "/" THEN <<cur>> \o SplitSlash(s, i + 1, <<>>)
    ELSE SplitSlash(s, i + 1, Append(cur, s[i]))

RECURSIVE CleanElems(_, _, _, _)
CleanElems(elems, i, out, rooted) ==
    IF i > Len(elems) THEN out
    ELSE LET e == elems[i] IN
         IF e = <<>> \/ e = <<".">> THEN CleanElems(elems, i + 1, out, rooted)
         ELSE IF e = <<".", ".">> THEN
              IF Len(out) > 0 /\ out[Len(out)] # <<".", ".">>
              THEN CleanElems(elems, i + 1, SubSeq(out, 1, Len(out) - 1), rooted)
              ELSE IF rooted THEN CleanElems(elems, i + 1, out, rooted)
              ELSE CleanElems(elems, i + 1, Append(out, e), rooted)
         ELSE CleanElems(elems, i + 1, Append(out, e), rooted)

RECURSIVE JoinSlash(_, _)
JoinSlash(elems, i) ==
    IF i > Len(elems) THEN <<>>
    ELSE IF i = Len(elems) THEN elems[i]
    ELSE elems[i] \o <<"/">> \o JoinSlash(elems, i + 1)

\* path.Clean: the shortest path name equivalent to s.
PathClean(s) ==
    IF s = <<>> THEN <<".">>
    ELSE LET rooted == s[1] = "/"
             kept == CleanElems(SplitSlash(s, 1, <<>>), 1, <<>>, rooted)
             body == JoinSlash(kept, 1)
         IN IF rooted THEN <<"/">> \o body
            ELSE IF body = <<>> THEN <<".">>
            ELSE body

RECURSIVE JoinBuf(_, _, _)
JoinBuf(elem, i, buf) ==
    IF i > Len(elem) THEN buf
    ELSE IF Len(buf) > 0 THEN JoinBuf(elem, i + 1, buf \o <<"/">> \o elem[i])
    ELSE IF elem[i] # <<>> THEN JoinBuf(elem, i + 1, elem[i])
    ELSE JoinBuf(elem, i + 1, buf)

\* path.Join(elem...): empty when every element is empty, else the cleaned
\* concatenation with "/" between the elements.
PathJoin(elem) ==
    IF \A i \in 1..Len(elem) : elem[i] = <<>> THEN <<>>
    ELSE PathClean(JoinBuf(elem, 1, <<>>))

\* ------------------------------------------- layersMapToFileTransferDetails

\* Faulty variant: the scan stops at the first property whose Key is "sha256".
RECURSIVE Sha256OfFirst(_, _, _)
Sha256OfFirst(properties, i, sha256) ==
    IF i > Len(properties) THEN sha256
    ELSE IF properties[i].Key = "sha256" THEN properties[i].Value
         ELSE Sha256OfFirst(properties, i + 1, sha256)

\* The inner loop: the Value of the last property whose Key is "sha256",
\* "" when there is none.
RECURSIVE Sha256Of(_, _, _)
Sha256Of(properties, i, sha256) ==
    IF i > Len(properties) THEN sha256
    ELSE IF properties[i].Key = "sha256"
         THEN Sha256Of(properties, i + 1, properties[i].Value)
         ELSE Sha256Of(properties, i + 1, sha256)

\* Faulty variant: the target path is built from the repo and the name alone.
FileTransferDetailsNoPath(artifactoryUrl, layer) ==
    [TargetPath |-> PathJoin(<<layer.Repo, layer.Name>>),
     RtUrl |-> artifactoryUrl,
     Sha256 |-> Sha256Of(layer.Properties, 1, "")]

\* The clientutils.FileTransferDetails literal built for one layer.
FileTransferDetails(artifactoryUrl, layer) ==
    [TargetPath |-> PathJoin(<<layer.Repo, layer.Path, layer.Name>>),
     RtUrl |-> artifactoryUrl,
     Sha256 |-> Sha256Of(layer.Properties, 1, "")]

\* Faulty variant: each detail is put in front of the ones before it.
RECURSIVE DetailsLoopRev(_, _, _, _)
DetailsLoopRev(artifactoryUrl, layers, i, details) ==
    IF i > Len(layers) THEN details
    ELSE DetailsLoopRev(artifactoryUrl, layers, i + 1,
                        <<FileTransferDetails(artifactoryUrl, layers[i])>> \o details)

\* Faulty variant: sha256 is declared outside the loop, so a layer without
\* the property takes the digest of the layer before it.
RECURSIVE DetailsLoopCarry(_, _, _, _)
DetailsLoopCarry(artifactoryUrl, layers, i, details) ==
    IF i > Len(layers) THEN details
    ELSE LET carried == IF details = <<>> THEN "" ELSE details[Len(details)].Sha256
             detail == [FileTransferDetails(artifactoryUrl, layers[i])
                           EXCEPT !.Sha256 = Sha256Of(layers[i].Properties, 1, carried)]
         IN DetailsLoopCarry(artifactoryUrl, layers, i + 1, Append(details, detail))

\* The outer loop: details = append(details, ...) for each layer in range order.
RECURSIVE DetailsLoop(_, _, _, _)
DetailsLoop(artifactoryUrl, layers, i, details) ==
    IF i > Len(layers) THEN details
    ELSE DetailsLoop(artifactoryUrl, layers, i + 1,
                     Append(details, FileTransferDetails(artifactoryUrl, layers[i])))

\* The command's result after a successful temp-file write: a reader over
\* the written records and the count of details.
NewResult(details) == <<[reader |-> details, successCount |-> Len(details)]>>


\* ------------------------------------------------------------------- state

VARIABLES
    containerManagerType,   \* ContainerCommand.containerManagerType
    detailedSummary,        \* PushCommand.detailedSummary
    validateSha,            \* ContainerCommandBase validateSha flag
    result,                 \* PushCommand.result: Nil or <<Result>>
    pc,                     \* position of Run: the next call to make
    err,                    \* value returned by Run, "nil" until it returns an error
    toCollect,              \* Run's local toCollect
    remoteBuilder,          \* Run's local remoteBuilder: Nil or <<builder>>
    builder,                \* Run's local builder: Nil or <<builder>>
    buildInfoModule,        \* Run's local buildInfoModule: Nil or <<module>>
    layersArg,              \* the layers passed to layersMapToFileTransferDetails
    generalDetailsSaved,    \* build.SaveBuildGeneralDetails has stored the build's details
    savedBuildInfo,         \* the modules build.SaveBuildInfo has stored
    calls,                  \* history: the collaborator calls made, with outcomes
    resultBefore            \* history: result when Run was called

vars == <<containerManagerType, detailedSummary, validateSha, result, pc, err,
          toCollect, remoteBuilder, builder, buildInfoModule, layersArg,
          generalDetailsSaved, savedBuildInfo, calls, resultBefore>>

fields == <<containerManagerType, detailedSummary, validateSha>>
locals == <<toCollect, remoteBuilder, builder, buildInfoModule, layersArg>>
store == <<generalDetailsSaved, savedBuildInfo>>

\* One collaborator call: the operation, the resolver it was made on ("" for
\* none), its argument and its outcome ("ok", "err", or "nil" for a nil
\* module returned without error).
Call(op, on, arg, out) == [op |-> op, on |-> on, arg |-> arg, out |-> out]

\* A freshly constructed build-info builder.
NewBuilder == <<[skipTaggingLayers |-> FALSE, layers |-> <<>>]>>

Return(e) == pc' = "done" /\ err' = e
Goto(label) == pc' = label /\ UNCHANGED err
Outcome(ok) == IF ok THEN "ok" ELSE "err"

\* errorutils.CheckError: logs and hands back the same error.
CheckError(e) == e

\* NewPushCommand: every field but the manager type is zero.
Init ==
    /\ containerManagerType \in ContainerManagerTypes
    /\ detailedSummary = FALSE
    /\ validateSha = FALSE
    /\ result = Nil
    /\ pc = "ready"
    /\ err = "nil"
    /\ toCollect = FALSE
    /\ remoteBuilder = Nil
    /\ builder = Nil
    /\ buildInfoModule = Nil
    /\ layersArg = <<>>
    /\ generalDetailsSaved = FALSE
    /\ savedBuildInfo = <<>>
    /\ calls = <<>>
    /\ resultBefore = Nil

\* ----------------------------------------------------------------- setters

SetDetailedSummary ==
    /\ pc = "ready"
    /\ \E b \in BOOLEAN : detailedSummary' = b
    /\ UNCHANGED <<containerManagerType, validateSha, result, pc, err, locals, store,
                   calls, resultBefore>>

SetValidateSha ==
    /\ pc = "ready"
    /\ \E b \in BOOLEAN : validateSha' = b
    /\ UNCHANGED <<containerManagerType, detailedSummary, result, pc, err, locals, store,
                   calls, resultBefore>>

SetResult ==
    /\ pc = "ready"
    /\ \E r \in {Nil, <<PriorResult>>} : result' = r
    /\ UNCHANGED <<fields, pc, err, locals, store, calls, resultBefore>>

\* --------------------------------------------------- Run, up to the gates

\* A call that touches nothing but the history and the position.
PlainCall(at, op, next, e) ==
    /\ pc = at
    /\ \E ok \in BOOLEAN :
        /\ calls' = Append(calls, Call(op, "", "", Outcome(ok)))
        /\ IF ok THEN Goto(next) ELSE Return(e)
    /\ UNCHANGED <<fields, result, locals, store, resultBefore>>

\* Faulty variant: Run clears the result before it starts.
RunInitResetsResult ==
    /\ pc = "ready"
    /\ resultBefore' = result
    /\ result' = Nil
    /\ \E ok \in BOOLEAN :
        /\ calls' = Append(calls, Call("init", "", "", Outcome(ok)))
        /\ IF ok
           THEN Goto(IF containerManagerType = DockerClient
                     THEN "ValidateClientApiVersion" ELSE "ServerDetails")
           ELSE Return("ErrInit")
    /\ UNCHANGED <<fields, locals, store>>

RunInit ==
    /\ pc = "ready"
    /\ resultBefore' = result
    /\ \E ok \in BOOLEAN :
        /\ calls' = Append(calls, Call("init", "", "", Outcome(ok)))
        /\ IF ok
           THEN Goto(IF containerManagerType = DockerClient
                     THEN "ValidateClientApiVersion" ELSE "ServerDetails")
           ELSE Return("ErrInit")
    /\ UNCHANGED <<fields, result, locals, store>>

ValidateClientApiVersion ==
    PlainCall("ValidateClientApiVersion", "ValidateClientApiVersion",
              "ServerDetails", "ErrApiVersion")

\* pc.ServerDetails() returns pc.serverDetails and a nil error.
ServerDetails ==
    /\ pc = "ServerDetails"
    /\ calls' = Append(calls, Call("ServerDetails", "", "", "ok"))
    /\ IF CheckError("nil") # "nil" THEN Return("nil") ELSE Goto("PerformLogin")
    /\ UNCHANGED <<fields, result, locals, store, resultBefore>>

PerformLogin == PlainCall("PerformLogin", "PerformLogin", "RunNativeCmd", "ErrLogin")

\* Faulty variant: a failed push is tried again.
RunNativeCmdRetry ==
    /\ pc = "RunNativeCmd"
    /\ \E ok \in BOOLEAN :
        /\ calls' = Append(calls, Call("RunNativeCmd", "", "", Outcome(ok)))
        /\ IF ok THEN Goto("IsCollectBuildInfo") ELSE Goto("RunNativeCmd")
    /\ UNCHANGED <<fields, result, locals, store, resultBefore>>

RunNativeCmd ==
    PlainCall("RunNativeCmd", "RunNativeCmd", "IsCollectBuildInfo", "ErrPush")

\* Faulty variant: no early return when neither gate is set.
IsCollectBuildInfoNoGate ==
    /\ pc = "IsCollectBuildInfo"
    /\ \E ok \in BOOLEAN, b \in BOOLEAN :
        /\ calls' = Append(calls, Call("IsCollectBuildInfo", "", "", Outcome(ok)))
        /\ toCollect' = b
        /\ IF ~ok THEN Return("ErrIsCollectBuildInfo") ELSE Goto("GetBuildName")
    /\ UNCHANGED <<fields, result, remoteBuilder, builder, buildInfoModule, layersArg,
                   store, resultBefore>>

IsCollectBuildInfo ==
    /\ pc = "IsCollectBuildInfo"
    /\ \E ok \in BOOLEAN, b \in BOOLEAN :
        /\ calls' = Append(calls, Call("IsCollectBuildInfo", "", "", Outcome(ok)))
        /\ toCollect' = b
        /\ IF ~ok THEN Return("ErrIsCollectBuildInfo")
           ELSE IF ~b /\ ~detailedSummary THEN Return("nil")
           ELSE Goto("GetBuildName")
    /\ UNCHANGED <<fields, result, remoteBuilder, builder, buildInfoModule, layersArg,
                   store, resultBefore>>

GetBuildName == PlainCall("GetBuildName", "GetBuildName", "GetBuildNumber", "ErrBuildName")

GetBuildNumber ==
    PlainCall("GetBuildNumber", "GetBuildNumber", "CreateServiceManagerWithThreads",
              "ErrBuildNumber")

CreateServiceManagerWithThreads ==
    PlainCall("CreateServiceManagerWithThreads", "CreateServiceManagerWithThreads",
              "GetRepo", "ErrServiceManager")

\* Faulty variant: the strategy test is inverted.
GetRepoSwapped ==
    PlainCall("GetRepo", "GetRepo",
              IF validateSha THEN "NewLocalAgentBuildInfoBuilder" ELSE "Id", "ErrRepo")

GetRepo ==
    PlainCall("GetRepo", "GetRepo",
              IF validateSha THEN "Id" ELSE "NewLocalAgentBuildInfoBuilder", "ErrRepo")

\* Faulty variant: the summary gate resolves again even after the build-info
\* gate has resolved.
AfterCollectAlwaysBuild(summaryBuild, getLayers) ==
    IF detailedSummary THEN Goto(summaryBuild) ELSE Return("nil")

\* Where Run goes once the build-info gate is behind it: the summary gate.
\* `summaryBuild` is the Build call the gate makes when toCollect is false,
\* `getLayers` the GetLayers call that feeds the manifest.
AfterCollect(summaryBuild, getLayers) ==
    IF detailedSummary
    THEN Goto(IF ~toCollect THEN summaryBuild ELSE getLayers)
    ELSE Return("nil")

\* ------------------------------------------- Run, digest strategy (120-161)

Id ==
    /\ pc = "Id"
    /\ \E ok \in BOOLEAN :
        /\ calls' = Append(calls, Call("Id", "", "", Outcome(ok)))
        /\ IF ok THEN Goto("NewRemoteAgentBuildInfoBuilder") ELSE Return("ErrId")
    /\ UNCHANGED <<fields, result, locals, store, resultBefore>>

\* Faulty variant: the build-info gate is entered whatever toCollect says.
NewRemoteAgentBuildInfoBuilderAlwaysCollect ==
    /\ pc = "NewRemoteAgentBuildInfoBuilder"
    /\ \E ok \in BOOLEAN :
        /\ calls' = Append(calls, Call("NewRemoteAgentBuildInfoBuilder", "remote", "",
                                       Outcome(ok)))
        /\ IF ok
           THEN /\ remoteBuilder' = NewBuilder
                /\ Goto("RemoteSaveBuildGeneralDetails")
           ELSE /\ UNCHANGED remoteBuilder
                /\ Return("ErrNewRemoteBuilder")
    /\ UNCHANGED <<fields, result, toCollect, builder, buildInfoModule, layersArg, store,
                   resultBefore>>

NewRemoteAgentBuildInfoBuilder ==
    /\ pc = "NewRemoteAgentBuildInfoBuilder"
    /\ \E ok \in BOOLEAN :
        /\ calls' = Append(calls, Call("NewRemoteAgentBuildInfoBuilder", "remote", "",
                                       Outcome(ok)))
        /\ IF ok
           THEN /\ remoteBuilder' = NewBuilder
                /\ IF toCollect THEN Goto("RemoteSaveBuildGeneralDetails")
                   ELSE AfterCollect("RemoteSummaryBuild", "RemoteGetLayers")
           ELSE /\ UNCHANGED remoteBuilder
                /\ Return("ErrNewRemoteBuilder")
    /\ UNCHANGED <<fields, result, toCollect, builder, buildInfoModule, layersArg, store,
                   resultBefore>>

RemoteSaveBuildGeneralDetails ==
    /\ pc = "RemoteSaveBuildGeneralDetails"
    /\ \E ok \in BOOLEAN :
        /\ calls' = Append(calls, Call("SaveBuildGeneralDetails", "", "", Outcome(ok)))
        /\ generalDetailsSaved' = (generalDetailsSaved \/ ok)
        /\ IF ok THEN Goto("RemoteBuild") ELSE Return("ErrSaveBuildGeneralDetails")
    /\ UNCHANGED <<fields, result, locals, savedBuildInfo, resultBefore>>

\* remoteBuilder.Build(GetModule()) and the two checks on what it returns.
RemoteBuild ==
    /\ pc = "RemoteBuild"
    /\ \E out \in {"ok", "nil", "err"}, ls \in ResolvedLayerSeqs :
        /\ calls' = Append(calls, Call("Build", "remote", ModuleName, out))
        /\ remoteBuilder' = <<[remoteBuilder[1] EXCEPT !.layers = ls]>>
        /\ buildInfoModule' = IF out = "ok" THEN <<[Id |-> ModuleName]>> ELSE Nil
        /\ IF out = "err" THEN Return("ErrBuild")
           ELSE IF buildInfoModule' = Nil THEN Return(CheckError("ErrModuleNil"))
           ELSE Goto("RemoteSaveBuildInfo")
    /\ UNCHANGED <<fields, result, toCollect, builder, layersArg, store, resultBefore>>

\* Faulty variant: a failed save is logged and the run goes on.
RemoteSaveBuildInfoSwallow ==
    /\ pc = "RemoteSaveBuildInfo"
    /\ \E ok \in BOOLEAN :
        /\ calls' = Append(calls, Call("SaveBuildInfo", "", "", Outcome(ok)))
        /\ savedBuildInfo' = IF ok THEN Append(savedBuildInfo, buildInfoModule)
                             ELSE savedBuildInfo
        /\ AfterCollect("RemoteSummaryBuild", "RemoteGetLayers")
    /\ UNCHANGED <<fields, result, locals, generalDetailsSaved, resultBefore>>

RemoteSaveBuildInfo ==
    /\ pc = "RemoteSaveBuildInfo"
    /\ \E ok \in BOOLEAN :
        /\ calls' = Append(calls, Call("SaveBuildInfo", "", "", Outcome(ok)))
        /\ savedBuildInfo' = IF ok THEN Append(savedBuildInfo, buildInfoModule)
                             ELSE savedBuildInfo
        /\ IF ok THEN AfterCollect("RemoteSummaryBuild", "RemoteGetLayers")
           ELSE Return(CheckError("ErrSaveBuildInfoWrapped"))
    /\ UNCHANGED <<fields, result, locals, generalDetailsSaved, resultBefore>>

\* Faulty variant: the summary gate's Build error is dropped.
RemoteSummaryBuildIgnoreErr ==
    /\ pc = "RemoteSummaryBuild"
    /\ \E out \in {"ok", "nil", "err"}, ls \in ResolvedLayerSeqs :
        /\ calls' = Append(calls, Call("Build", "remote", "", out))
        /\ remoteBuilder' = <<[remoteBuilder[1] EXCEPT !.layers = ls]>>
        /\ Goto("RemoteGetLayers")
    /\ UNCHANGED <<fields, result, toCollect, builder, buildInfoModule, layersArg, store,
                   resultBefore>>

\* remoteBuilder.Build("") of the summary gate; the module is discarded.
RemoteSummaryBuild ==
    /\ pc = "RemoteSummaryBuild"
    /\ \E out \in {"ok", "nil", "err"}, ls \in ResolvedLayerSeqs :
        /\ calls' = Append(calls, Call("Build", "remote", "", out))
        /\ remoteBuilder' = <<[remoteBuilder[1] EXCEPT !.layers = ls]>>
        /\ IF out = "err" THEN Return(CheckError("ErrSummaryBuildWrapped"))
           ELSE Goto("RemoteGetLayers")
    /\ UNCHANGED <<fields, result, toCollect, builder, buildInfoModule, layersArg, store,
                   resultBefore>>

RemoteGetLayers ==
    /\ pc = "RemoteGetLayers"
    /\ calls' = Append(calls, Call("GetLayers", "remote", "", "ok"))
    /\ layersArg' = remoteBuilder[1].layers
    /\ Goto("layersMapToFileTransferDetails")
    /\ UNCHANGED <<fields, result, toCollect, remoteBuilder, builder, buildInfoModule,
                   store, resultBefore>>

\* --------------------------------------------- Run, tag strategy (163-196)

\* Faulty variant: the build-info gate assembles the module without first
\* saving the build's general details.
NewLocalAgentBuildInfoBuilderNoDetails ==
    /\ pc = "NewLocalAgentBuildInfoBuilder"
    /\ \E ok \in BOOLEAN :
        /\ calls' = Append(calls, Call("NewLocalAgentBuildInfoBuilder", "local", "",
                                       Outcome(ok)))
        /\ IF ok
           THEN /\ builder' = NewBuilder
                /\ IF toCollect THEN Goto("Build")
                   ELSE AfterCollect("SummaryBuild", "GetLayers")
           ELSE /\ UNCHANGED builder
                /\ Return("ErrNewLocalBuilder")
    /\ UNCHANGED <<fields, result, toCollect, remoteBuilder, buildInfoModule, layersArg,
                   store, resultBefore>>

NewLocalAgentBuildInfoBuilder ==
    /\ pc = "NewLocalAgentBuildInfoBuilder"
    /\ \E ok \in BOOLEAN :
        /\ calls' = Append(calls, Call("NewLocalAgentBuildInfoBuilder", "local", "",
                                       Outcome(ok)))
        /\ IF ok
           THEN /\ builder' = NewBuilder
                /\ IF toCollect THEN Goto("SaveBuildGeneralDetails")
                   ELSE AfterCollect("SummaryBuild", "GetLayers")
           ELSE /\ UNCHANGED builder
                /\ Return("ErrNewLocalBuilder")
    /\ UNCHANGED <<fields, result, toCollect, remoteBuilder, buildInfoModule, layersArg,
                   store, resultBefore>>

SaveBuildGeneralDetails ==
    /\ pc = "SaveBuildGeneralDetails"
    /\ \E ok \in BOOLEAN :
        /\ calls' = Append(calls, Call("SaveBuildGeneralDetails", "", "", Outcome(ok)))
        /\ generalDetailsSaved' = (generalDetailsSaved \/ ok)
        /\ IF ok THEN Goto("Build") ELSE Return("ErrSaveBuildGeneralDetails")
    /\ UNCHANGED <<fields, result, locals, savedBuildInfo, resultBefore>>

\* Faulty variant: only the error is checked, a nil module goes on to
\* persistence.
BuildNilProceeds ==
    /\ pc = "Build"
    /\ \E out \in {"ok", "nil", "err"}, ls \in ResolvedLayerSeqs :
        /\ calls' = Append(calls, Call("Build", "local", ModuleName, out))
        /\ builder' = <<[builder[1] EXCEPT !.layers = ls]>>
        /\ buildInfoModule' = IF out = "ok" THEN <<[Id |-> ModuleName]>> ELSE Nil
        /\ IF out = "err" THEN Return("ErrBuild") ELSE Goto("SaveBuildInfo")
    /\ UNCHANGED <<fields, result, toCollect, remoteBuilder, layersArg, store, resultBefore>>

\* builder.Build(GetModule()) followed by
\* `if err != nil || buildInfoModule == nil { return err }`.
Build ==
    /\ pc = "Build"
    /\ \E out \in {"ok", "nil", "err"}, ls \in ResolvedLayerSeqs :
        /\ calls' = Append(calls, Call("Build", "local", ModuleName, out))
        /\ builder' = <<[builder[1] EXCEPT !.layers = ls]>>
        /\ buildInfoModule' = IF out = "ok" THEN <<[Id |-> ModuleName]>> ELSE Nil
        /\ LET e == IF out = "err" THEN "ErrBuild" ELSE "nil" IN
           IF e # "nil" \/ buildInfoModule' = Nil THEN Return(e)
           ELSE Goto("SaveBuildInfo")
    /\ UNCHANGED <<fields, result, toCollect, remoteBuilder, layersArg, store, resultBefore>>

SaveBuildInfo ==
    /\ pc = "SaveBuildInfo"
    /\ \E ok \in BOOLEAN :
        /\ calls' = Append(calls, Call("SaveBuildInfo", "", "", Outcome(ok)))
        /\ savedBuildInfo' = IF ok THEN Append(savedBuildInfo, buildInfoModule)
                             ELSE savedBuildInfo
        /\ IF ok THEN AfterCollect("SummaryBuild", "GetLayers")
           ELSE Return("ErrSaveBuildInfo")
    /\ UNCHANGED <<fields, result, locals, generalDetailsSaved, resultBefore>>

\* Faulty variant: the summary gate builds without SetSkipTaggingLayers(true).
SummaryBuildNoSkip ==
    /\ pc = "SummaryBuild"
    /\ \E out \in {"ok", "nil", "err"}, ls \in ResolvedLayerSeqs :
        /\ calls' = Append(calls, Call("Build", "local", "", out))
        /\ builder' = <<[builder[1] EXCEPT !.layers = ls]>>
        /\ IF out = "err" THEN Return("ErrBuild") ELSE Goto("GetLayers")
    /\ UNCHANGED <<fields, result, toCollect, remoteBuilder, buildInfoModule, layersArg,
                   store, resultBefore>>

\* builder.SetSkipTaggingLayers(true) and builder.Build("") of the summary gate.
SummaryBuild ==
    /\ pc = "SummaryBuild"
    /\ \E out \in {"ok", "nil", "err"}, ls \in ResolvedLayerSeqs :
        /\ calls' = calls \o <<Call("SetSkipTaggingLayers", "local", "true", "ok"),
                               Call("Build", "local", "", out)>>
        /\ builder' = <<[skipTaggingLayers |-> TRUE, layers |-> ls]>>
        /\ IF out = "err" THEN Return("ErrBuild") ELSE Goto("GetLayers")
    /\ UNCHANGED <<fields, result, toCollect, remoteBuilder, buildInfoModule, layersArg,
                   store, resultBefore>>

GetLayers ==
    /\ pc = "GetLayers"
    /\ calls' = Append(calls, Call("GetLayers", "local", "", "ok"))
    /\ layersArg' = builder[1].layers
    /\ Goto("layersMapToFileTransferDetails")
    /\ UNCHANGED <<fields, result, toCollect, remoteBuilder, builder, buildInfoModule,
                   store, resultBefore>>

\* ------------------------------------ layersMapToFileTransferDetails (198-218)

\* Faulty variant: the result is stored before the temp-file write is checked.
layersMapToFileTransferDetailsResultFirst ==
    /\ pc = "layersMapToFileTransferDetails"
    /\ LET details == DetailsLoop(ArtifactoryUrl, layersArg, 1, <<>>) IN
       \E ok \in BOOLEAN :
        /\ calls' = Append(calls, Call("SaveFileTransferDetailsInTempFile", "", "",
                                       Outcome(ok)))
        /\ result' = NewResult(details)
        /\ IF ok THEN Return("nil") ELSE Return("ErrTempFile")
    /\ UNCHANGED <<fields, locals, store, resultBefore>>

\* The details are built, written to a temp file, and on success wrapped in
\* a new Result stored with SetResult.
layersMapToFileTransferDetails ==
    /\ pc = "layersMapToFileTransferDetails"
    /\ LET details == DetailsLoop(ArtifactoryUrl, layersArg, 1, <<>>) IN
       \E ok \in BOOLEAN :
        /\ calls' = Append(calls, Call("SaveFileTransferDetailsInTempFile", "", "",
                                       Outcome(ok)))
        /\ IF ok THEN result' = NewResult(details) /\ Return("nil")
           ELSE UNCHANGED result /\ Return("ErrTempFile")
    /\ UNCHANGED <<fields, locals, store, resultBefore>>

\* ------------------------------------------------------------ specification

Next ==
    \/ SetDetailedSummary
    \/ SetValidateSha
    \/ SetResult
    \/ RunInit
    \/ ValidateClientApiVersion
    \/ ServerDetails
    \/ PerformLogin
    \/ RunNativeCmd
    \/ IsCollectBuildInfo
    \/ GetBuildName
    \/ GetBuildNumber
    \/ CreateServiceManagerWithThreads
    \/ GetRepo
    \/ Id
    \/ NewRemoteAgentBuildInfoBuilder
    \/ RemoteSaveBuildGeneralDetails
    \/ RemoteBuild
    \/ RemoteSaveBuildInfo
    \/ RemoteSummaryBuild
    \/ RemoteGetLayers
    \/ NewLocalAgentBuildInfoBuilder
    \/ SaveBuildGeneralDetails
    \/ Build
    \/ SaveBuildInfo
    \/ SummaryBuild
    \/ GetLayers
    \/ layersMapToFileTransferDetails

Spec == Init /\ [][Next]_vars

\* layersMapToFileTransferDetails as a function of its layers alone: Run is
\* at the call in a summary-only tag-strategy run, with any layer sequence.
SummaryRunCalls ==
    <<Call("init", "", "", "ok"), Call("ServerDetails", "", "", "ok"),
      Call("PerformLogin", "", "", "ok"), Call("RunNativeCmd", "", "", "ok"),
      Call("IsCollectBuildInfo", "", "", "ok"), Call("GetBuildName", "", "", "ok"),
      Call("GetBuildNumber", "", "", "ok"),
      Call("CreateServiceManagerWithThreads", "", "", "ok"),
      Call("GetRepo", "", "", "ok"),
      Call("NewLocalAgentBuildInfoBuilder", "local", "", "ok"),
      Call("SetSkipTaggingLayers", "local", "true", "ok"),
      Call("Build", "local", "", "ok"), Call("GetLayers", "local", "", "ok")>>

MapInit ==
    /\ containerManagerType = Podman
    /\ detailedSummary = TRUE
    /\ validateSha = FALSE
    /\ result = Nil
    /\ pc = "layersMapToFileTransferDetails"
    /\ err = "nil"
    /\ toCollect = FALSE
    /\ remoteBuilder = Nil
    /\ layersArg \in LayerSeqs
    /\ builder = <<[skipTaggingLayers |-> TRUE, layers |-> layersArg]>>
    /\ buildInfoModule = Nil
    /\ generalDetailsSaved = FALSE
    /\ savedBuildInfo = <<>>
    /\ calls = SummaryRunCalls
    /\ resultBefore = Nil

MapNext == layersMapToFileTransferDetails

MapSpec == MapInit /\ [][MapNext]_vars

\* ------------------------------------------------------------------ claims

Ops(op) == {i \in DOMAIN calls : calls[i].op = op}
OpsOut(op, out) == {i \in Ops(op) : calls[i].out = out}
Called(op) == Ops(op) # {}
Done == pc = "done"
LastCall == calls[Len(calls)]

\* The calls made on either resolver, and the calls of the two gates.
ResolverOps == {"NewRemoteAgentBuildInfoBuilder", "NewLocalAgentBuildInfoBuilder",
                "SetSkipTaggingLayers", "Build", "GetLayers"}
PersistenceOps == {"SaveBuildGeneralDetails", "SaveBuildInfo"}
ManifestOp == "SaveFileTransferDetailsInTempFile"

\* C1: in every run, whatever the flags and the collaborators' outcomes, the
\* resolver's Build is called at most once; with toCollect and
\* detailedSummary both set the summary gate reads the layers the build-info
\* gate resolved.
C1_BuildAtMostOnce == Cardinality(Ops("Build")) <= 1

\* A run with both gates that attached a result after a single Build.
C1_Witness ==
    /\ Done /\ err = "nil" /\ toCollect /\ detailedSummary
    /\ Cardinality(Ops("Build")) = 1
    /\ Called("SaveBuildInfo")
    /\ LastCall.op = ManifestOp /\ result # Nil /\ result[1].successCount = 2

\* C2: with toCollect set, a Build that returns a nil module and no error
\* makes Run return a non-nil error, under either strategy.
C2_NilModuleIsAnError ==
    (Done /\ toCollect /\ OpsOut("Build", "nil") # {}) => err # "nil"

\* C3: with toCollect set, after a Build that returned a nil module and no
\* error, SaveBuildInfo is never called and nothing is persisted as the
\* build's module, under either strategy.
C3_NilModuleNotPersisted ==
    (toCollect /\ OpsOut("Build", "nil") # {}) =>
        ~Called("SaveBuildInfo") /\ savedBuildInfo = <<>>

\* A finished tag-strategy run whose build-info gate got a nil module.
C3_Witness ==
    /\ Done /\ toCollect /\ ~validateSha
    /\ OpsOut("Build", "nil") # {}
    /\ LastCall.op = "Build"

\* The case of C4: the push succeeded, the build-configuration lookup
\* answered false without error, and detailedSummary is false.
NeitherGate ==
    /\ OpsOut("RunNativeCmd", "ok") # {}
    /\ OpsOut("IsCollectBuildInfo", "ok") # {}
    /\ ~toCollect /\ ~detailedSummary

\* Nothing follows the lookup: no service manager, no digest query, no
\* resolver, no persistence, no manifest.
NothingAfterLookup ==
    /\ Done
    /\ LastCall.op = "IsCollectBuildInfo"
    /\ remoteBuilder = Nil /\ builder = Nil
    /\ ~generalDetailsSaved /\ savedBuildInfo = <<>>

\* C4 as stated: with neither gate set and a successful push, Run succeeds,
\* the command holds a result whose SuccessCount is 0, and nothing follows
\* the push.
C4_EmptyResult ==
    NeitherGate =>
        /\ err = "nil"
        /\ NothingAfterLookup
        /\ result # Nil /\ result[1].successCount = 0

\* C4 amended: with neither gate set and a successful push, Run succeeds,
\* leaves the result field as it was before the call (nil unless the caller
\* stored one), and nothing follows the build-configuration lookup.
C4_NoResultNoCalls ==
    NeitherGate =>
        /\ err = "nil"
        /\ NothingAfterLookup
        /\ result = resultBefore

\* A fresh command whose run returned at the gate check.
C4_Witness == NeitherGate /\ Done /\ result = Nil /\ containerManagerType = DockerClient

SkipCallBefore(i) ==
    \E j \in Ops("SetSkipTaggingLayers") : j < i /\ calls[j].arg = "true"

\* C5: under the tag strategy Build runs with skip-tagging enabled exactly
\* when toCollect is false and detailedSummary is true, the call
\* SetSkipTaggingLayers(true) coming before Build; with toCollect set
\* skip-tagging is never enabled; under the digest strategy there is no
\* skip-tagging call.
C5_SkipTagging ==
    /\ \A i \in Ops("Build") :
          calls[i].on = "local" =>
              /\ SkipCallBefore(i) <=> (~toCollect /\ detailedSummary)
              /\ builder[1].skipTaggingLayers <=> (~toCollect /\ detailedSummary)
    /\ toCollect =>
          /\ ~Called("SetSkipTaggingLayers")
          /\ builder # Nil => ~builder[1].skipTaggingLayers
    /\ validateSha => ~Called("SetSkipTaggingLayers")
    /\ remoteBuilder # Nil => ~remoteBuilder[1].skipTaggingLayers

\* A summary-only tag-strategy run that built with skip-tagging enabled.
C5_Witness ==
    /\ Done /\ err = "nil" /\ ~validateSha /\ ~toCollect /\ detailedSummary
    /\ \E i \in Ops("Build") : calls[i].on = "local" /\ SkipCallBefore(i)
    /\ builder[1].skipTaggingLayers

OnResolver(on) == {i \in DOMAIN calls : calls[i].on = on}

\* C6: the strategy follows validateSha and is never mixed.  The digest
\* query and the digest resolver appear only with validateSha set, the tag
\* resolver only with it unset, never both in one run; and a run that got
\* as far as choosing made the choice validateSha names.
C6_OneStrategy ==
    /\ (Called("Id") \/ OnResolver("remote") # {} \/ remoteBuilder # Nil) => validateSha
    /\ (OnResolver("local") # {} \/ builder # Nil) => ~validateSha
    /\ ~(OnResolver("remote") # {} /\ OnResolver("local") # {})
    /\ ~(remoteBuilder # Nil /\ builder # Nil)
    /\ (Done /\ OpsOut("GetRepo", "ok") # {}) =>
          IF validateSha
          THEN /\ Called("Id")
               /\ OpsOut("Id", "ok") # {} => Called("NewRemoteAgentBuildInfoBuilder")
          ELSE Called("NewLocalAgentBuildInfoBuilder")

\* A successful digest-strategy run through both gates.
C6_Witness ==
    /\ Done /\ err = "nil" /\ validateSha /\ toCollect /\ detailedSummary
    /\ OpsOut("Id", "ok") # {}
    /\ \E i \in Ops("Build") : calls[i].on = "remote"
    /\ OnResolver("local") = {}

\* C7: with toCollect set the build-info gate calls SaveBuildGeneralDetails,
\* then Build with the requested module name, then SaveBuildInfo: no Build
\* before SaveBuildGeneralDetails succeeded, no SaveBuildInfo before Build
\* returned a non-nil module without error.
C7_GateOrder ==
    toCollect =>
        /\ \A i \in Ops("Build") :
              /\ calls[i].arg = ModuleName
              /\ \E j \in OpsOut("SaveBuildGeneralDetails", "ok") : j < i
        /\ \A k \in Ops("SaveBuildInfo") :
              /\ \E i \in OpsOut("Build", "ok") : i < k
              /\ buildInfoModule # Nil

\* A tag-strategy run whose build-info gate made all three calls.
C7_Witness ==
    /\ Done /\ toCollect /\ ~validateSha
    /\ \E j \in OpsOut("SaveBuildGeneralDetails", "ok"), i \in OpsOut("Build", "ok"),
          k \in OpsOut("SaveBuildInfo", "ok") : j < i /\ i < k

\* C8: when a step of Run fails (any call returns an error), Run returns a
\* non-nil error at once: the failing call is the last call of the run.
C8_FailureAborts ==
    \A i \in DOMAIN calls :
        calls[i].out = "err" => i = Len(calls) /\ Done /\ err # "nil"

\* A digest-strategy run that failed at SaveBuildInfo, after a resolved module.
C8_Witness ==
    /\ Done /\ err = "ErrSaveBuildInfoWrapped"
    /\ LastCall = Call("SaveBuildInfo", "", "", "err")
    /\ detailedSummary

AfterPushOps == {"Id", ManifestOp} \cup ResolverOps \cup PersistenceOps

\* C9: the push is made at most once; every digest query, resolver call,
\* persistence call and manifest write comes after a successful push; and
\* after a failed push or a failed digest query there is no Build, no
\* SaveBuildGeneralDetails, no SaveBuildInfo and no manifest.
C9_PushOnceAndFirst ==
    /\ Cardinality(Ops("RunNativeCmd")) <= 1
    /\ \A i \in DOMAIN calls :
          calls[i].op \in AfterPushOps =>
              \E j \in OpsOut("RunNativeCmd", "ok") : j < i
    /\ (OpsOut("RunNativeCmd", "err") # {} \/ OpsOut("Id", "err") # {}) =>
          /\ Done /\ err # "nil"
          /\ ~Called("Build") /\ ~Called("SaveBuildGeneralDetails")
          /\ ~Called("SaveBuildInfo") /\ ~Called(ManifestOp)

\* A run whose push succeeded and whose digest query failed.
C9_Witness ==
    /\ Done /\ OpsOut("RunNativeCmd", "ok") # {} /\ OpsOut("Id", "err") # {}
    /\ toCollect /\ detailedSummary

\* The manifest was written: the last call is a successful temp-file write.
ManifestBuilt == Done /\ LastCall = Call(ManifestOp, "", "", "ok")

\* C10: for every sequence of layers the result holds exactly one detail per
\* layer, the i-th detail being the one of the i-th layer, and its
\* SuccessCount is the number of layers (0 for no layers).
C10_OnePerLayerInOrder ==
    ManifestBuilt =>
        /\ result # Nil
        /\ Len(result[1].reader) = Len(layersArg)
        /\ result[1].successCount = Len(layersArg)
        /\ \A i \in 1..Len(layersArg) :
              result[1].reader[i] = FileTransferDetails(ArtifactoryUrl, layersArg[i])

\* Two layers with different digests, mapped in order.
C10_Witness ==
    /\ ManifestBuilt
    /\ Len(layersArg) = 2
    /\ result[1].reader[1].Sha256 = "def" /\ result[1].reader[2].Sha256 = ""
    /\ result[1].successCount = 2


\* repo/path/name: the three strings with a "/" between them, as written.
SlashJoin(layer) == layer.Repo \o <<"/">> \o layer.Path \o <<"/">> \o layer.Name

\* s is a relative path already in its shortest form: not empty, no leading
\* or trailing "/", and no empty, "." or ".." element.
IsCleanRelative(s) ==
    /\ s # <<>>
    /\ \A e \in {SplitSlash(s, 1, <<>>)[k] : k \in 1..Len(SplitSlash(s, 1, <<>>))} :
          e \notin {<<>>, <<".">>, <<".", ".">>}

\* The Values of the layer's properties whose Key is "sha256".
Sha256Values(layer) ==
    {layer.Properties[k].Value :
        k \in {n \in DOMAIN layer.Properties : layer.Properties[n].Key = "sha256"}}

\* C11 as stated: every layer's detail has target path repo/path/name, the
\* base URL as repository URL, and the layer's sha256 property as digest.
C11_SlashJoined ==
    ManifestBuilt =>
        \A i \in 1..Len(layersArg) :
            /\ result[1].reader[i].TargetPath = SlashJoin(layersArg[i])
            /\ result[1].reader[i].RtUrl = ArtifactoryUrl
            /\ Sha256Values(layersArg[i]) # {} =>
                  result[1].reader[i].Sha256 \in Sha256Values(layersArg[i])

\* C11 amended: the target path is path.Join(repo, path, name), which is
\* repo/path/name when the three are relative paths in shortest form, and
\* repo/name when the path is "." or empty; the repository URL is the base
\* URL; the digest is the Value of a sha256 property of the layer when it
\* has one.
C11_PathJoined ==
    ManifestBuilt =>
        \A i \in 1..Len(layersArg) :
            LET layer == layersArg[i]
                detail == result[1].reader[i]
            IN /\ (IsCleanRelative(layer.Repo) /\ IsCleanRelative(layer.Path)
                      /\ IsCleanRelative(layer.Name)) =>
                      detail.TargetPath = SlashJoin(layer)
               /\ (layer.Path \in {<<".">>, <<>>} /\ IsCleanRelative(layer.Repo)
                      /\ IsCleanRelative(layer.Name)) =>
                      detail.TargetPath = layer.Repo \o <<"/">> \o layer.Name
               /\ detail.RtUrl = ArtifactoryUrl
               /\ Sha256Values(layer) # {} => detail.Sha256 \in Sha256Values(layer)

\* The layer {r, p, n, sha256 abc} mapped to {r/p/n, https://x, abc}, next
\* to a layer in the repository root.
C11_Witness ==
    /\ ManifestBuilt
    /\ Len(layersArg) = 2
    /\ layersArg[1] = ResultItem(<<"r">>, <<"p">>, <<"n">>, <<Property("sha256", "abc")>>)
    /\ result[1].reader[1] =
          [TargetPath |-> <<"r", "/", "p", "/", "n">>, RtUrl |-> "https://x", Sha256 |-> "abc"]
    /\ layersArg[2].Path = <<".">>
    /\ result[1].reader[2].TargetPath = <<"r", "/", "n">>


\* The places of the properties whose Key is "sha256".
Sha256Places(layer) == {n \in DOMAIN layer.Properties : layer.Properties[n].Key = "sha256"}

\* C12: a layer with no property of Key sha256 gets an empty digest and the
\* manifest is still built; the digests of the other layers of the sequence
\* are those of their own properties.
C12_MissingDigestIsEmpty ==
    ManifestBuilt =>
        /\ err = "nil"
        /\ \A i \in 1..Len(layersArg) :
              IF Sha256Places(layersArg[i]) = {}
              THEN result[1].reader[i].Sha256 = ""
              ELSE result[1].reader[i].Sha256 \in Sha256Values(layersArg[i])

\* A layer with a digest followed by a layer without one.
C12_Witness ==
    /\ ManifestBuilt /\ err = "nil"
    /\ Len(layersArg) = 2
    /\ Sha256Places(layersArg[1]) # {} /\ Sha256Places(layersArg[2]) = {}
    /\ layersArg[2].Properties # <<>>
    /\ result[1].reader[1].Sha256 = "def" /\ result[1].reader[2].Sha256 = ""

\* The greatest element of a non-empty set of places.
LastPlace(places) == CHOOSE n \in places : \A k \in places : k <= n

IsSha256(property) == property.Key = "sha256"

\* C19: with more than one property of Key sha256 the digest is the Value of
\* the last of them in property order, and the properties with another Key
\* change nothing: the digest is that of the sha256 properties alone.
C19_LastSha256Wins ==
    ManifestBuilt =>
        \A i \in 1..Len(layersArg) :
            LET layer == layersArg[i]
                only == SelectSeq(layer.Properties, IsSha256)
            IN /\ Sha256Places(layer) # {} =>
                     result[1].reader[i].Sha256 =
                         layer.Properties[LastPlace(Sha256Places(layer))].Value
               /\ result[1].reader[i].Sha256 =
                     (IF only = <<>> THEN "" ELSE only[Len(only)].Value)

\* One layer with two different sha256 properties, one with a sha256
\* property followed by a property of another key.
C19_Witness ==
    /\ ManifestBuilt
    /\ Len(layersArg) = 2
    /\ layersArg[1].Properties = <<Property("sha256", "abc"), Property("sha256", "def")>>
    /\ result[1].reader[1].Sha256 = "def"
    /\ layersArg[2].Properties = <<Property("sha256", "def"), Property("docker.manifest", "abc")>>
    /\ result[1].reader[2].Sha256 = "def"


\* The resolver of the run, Nil when none was constructed.
Resolver == IF validateSha THEN remoteBuilder ELSE builder

\* C13: when detailedSummary is set and Run returns without error, the run
\* has attached a result whose SuccessCount is the number of layers the
\* resolver holds, whatever toCollect and validateSha.
C13_SummaryAttached ==
    (Done /\ err = "nil" /\ detailedSummary) =>
        /\ LastCall = Call(ManifestOp, "", "", "ok")
        /\ Resolver # Nil
        /\ result # Nil
        /\ result[1].successCount = Len(Resolver[1].layers)

\* The case of C14: both gates set, the module saved, the temp-file write failed.
SerializationFailedAfterSave ==
    /\ toCollect /\ detailedSummary
    /\ OpsOut("SaveBuildInfo", "ok") # {}
    /\ OpsOut(ManifestOp, "err") # {}

\* C14: no rollback.  When the manifest write fails after SaveBuildInfo
\* succeeded, Run returns an error, what was persisted stays persisted with
\* no further call, and no result is attached.
C14_NoRollback ==
    SerializationFailedAfterSave =>
        /\ Done /\ err # "nil"
        /\ LastCall = Call(ManifestOp, "", "", "err")
        /\ generalDetailsSaved
        /\ savedBuildInfo = <<buildInfoModule>> /\ buildInfoModule # Nil
        /\ Cardinality({i \in DOMAIN calls : calls[i].op \in PersistenceOps}) = 2
        /\ result = resultBefore

\* A digest-strategy run on a fresh command that failed at the manifest.
C14_Witness ==
    /\ SerializationFailedAfterSave /\ validateSha
    /\ result = Nil /\ savedBuildInfo = <<<<[Id |-> ModuleName]>>>>

\* C15: GetLayers is called on a resolver only after a Build on that same
\* resolver has returned without error in the run.
C15_LayersAfterBuild ==
    \A i \in Ops("GetLayers") :
        \E j \in Ops("Build") :
            j < i /\ calls[j].on = calls[i].on /\ calls[j].out # "err"

\* A summary-only digest run that read the layers after its Build.
C15_Witness ==
    /\ Done /\ validateSha /\ ~toCollect
    /\ \E i \in Ops("GetLayers") : calls[i].on = "remote" /\ calls[i - 1].op = "Build"
    /\ layersArg = remoteBuilder[1].layers /\ Len(layersArg) = 2

\* C16: the gates are independent.  SaveBuildGeneralDetails and
\* SaveBuildInfo are called only with toCollect set, the manifest is built
\* only with detailedSummary set; a summary-only run persists nothing and a
\* collect-only run attaches no result.
C16_IndependentGates ==
    /\ (Called("SaveBuildGeneralDetails") \/ Called("SaveBuildInfo")) => toCollect
    /\ (generalDetailsSaved \/ savedBuildInfo # <<>>) => toCollect
    /\ (Called(ManifestOp) \/ Called("GetLayers")) => detailedSummary
    /\ (pc # "ready" /\ toCollect /\ ~detailedSummary) => result = resultBefore

\* A summary-only run that attached a result and persisted nothing.
C16_Witness ==
    /\ Done /\ err = "nil" /\ ~toCollect /\ detailedSummary
    /\ ManifestBuilt /\ result # resultBefore
    /\ ~generalDetailsSaved /\ savedBuildInfo = <<>>

\* The calls the two strategies have in common: the gates' calls.
GateOps == {"SaveBuildGeneralDetails", "Build", "SaveBuildInfo", ManifestOp}
IsGateCall(c) == c.op \in GateOps
GateCalls == SelectSeq(calls, IsGateCall)

\* The gate calls a run with these flags makes when nothing stops it.
FullGateOps ==
    (IF toCollect THEN <<"SaveBuildGeneralDetails", "Build", "SaveBuildInfo">>
     ELSE IF detailedSummary THEN <<"Build">> ELSE <<>>)
    \o (IF detailedSummary THEN <<ManifestOp>> ELSE <<>>)

\* C17: for the same flags and the same collaborator outcomes the two
\* strategies give the same success or failure and the same sequence of
\* gate calls.  Stated by one rule that names no strategy, the rule of the
\* digest path: the gate calls are the calls the flags require, in order,
\* up to the first that stops the run (an error, or a nil module in the
\* build-info gate), and Run succeeds exactly when all of them were made
\* and none returned an error.
C17_StrategiesAgree ==
    (Done /\ Resolver # Nil) =>
        /\ Len(GateCalls) <= Len(FullGateOps)
        /\ \A i \in 1..Len(GateCalls) : GateCalls[i].op = FullGateOps[i]
        /\ (err = "nil") <=>
              /\ Len(GateCalls) = Len(FullGateOps)
              /\ \A i \in 1..Len(GateCalls) : GateCalls[i].out # "err"

\* C18: Run changes the result field only in the last step of a successful
\* manifest build; on every path that returns an error and on every path
\* with detailedSummary unset the field keeps the value it had when Run was
\* called.
C18_ResultFrame ==
    /\ (Done /\ err # "nil") => result = resultBefore
    /\ (pc # "ready" /\ ~detailedSummary) => result = resultBefore
    /\ (pc # "ready" /\ result # resultBefore) => ManifestBuilt /\ err = "nil"

\* A run that failed at the manifest and kept the caller's earlier result.
C18_Witness ==
    /\ Done /\ err = "ErrTempFile" /\ detailedSummary
    /\ resultBefore = <<PriorResult>> /\ result = <<PriorResult>>

====
